---- MODULE Spec2Model ----
(***************************************************************************)
(* A model of the London transport dashboard's client-side logic:          *)
(*   - AnimatedVehicleMap: the vehicle-processing effect, its position     *)
(*     cache and the selected-vehicle update effect (SpecMap);             *)
(*   - VehicleMapModal: the marker animation effect (SpecModal);           *)
(*   - LiveVehicles: the fetch / auto-refresh effect (SpecLive);           *)
(*   - Dashboard: the auto-refresh effect of the live tab (SpecDash).      *)
(*                                                                         *)
(* Coordinates are integers in micro-degrees (1e-6 degree), angles in      *)
(* 1e-4 radian, sines and cosines in 1e-4.  Strings that are hashed        *)
(* (vehicle ids) are sequences of character codes.                         *)
(***************************************************************************)
EXTENDS Integers, Sequences, FiniteSets, TLC

VARIABLES
    \* ---- AnimatedVehicleMap ----
    mapPhase,                 \* "init" (not mounted yet), "mounted", "closed"
    data,                     \* [loaded, vehicleTracking]: result of useQuery
    initialVehicles,          \* prop `vehicles`
    selectedVehicle,          \* prop: [present, vehicleId]
    showOnlySelected,         \* prop
    displayVehicles,          \* state
    updatingSelectedVehicle,  \* state
    vehiclePositionCache,     \* ref: vehicle id -> [lat, lon, baseLat, baseLon]
    intervalId,               \* the 15 s interval and what its callback captured
    inflight,                 \* selectedVehiclePosition requests in flight, per id
    latestResponse,           \* history: latest successful response of this selection
    reqCause,                 \* history: what started the latest request
    loading,                  \* useQuery: a GET_VEHICLE_TRACKING request is in flight
    mapIsInitialLoad,         \* state isInitialLoad of AnimatedVehicleMap
    \* ---- VehicleMapModal ----
    modalPhase,
    vehicle,                  \* prop
    animatedPosition,         \* state
    prevPosRef,               \* ref
    animation,                \* the requestAnimationFrame loop of the effect
    lastEffect,               \* history: the latest run of the position effect
    \* ---- LiveVehicles ----
    livePhase,
    vehicles,                 \* state
    isInitialLoad,            \* state
    error,                    \* state
    liveSelected,             \* state selectedVehicle of LiveVehicles
    liveTimers,               \* active 10 s intervals: [id, captured isInitialLoad]
    liveFetches,              \* fetchVehicles calls in flight, per captured isInitialLoad
    liveHist,                 \* history: what started the latest fetch
    liveLast,                 \* history: how the latest fetchVehicles call ended
    \* ---- Dashboard ----
    dashPhase,
    selectedTab,              \* state
    dashTimers,               \* active 30 s intervals (ids)
    refetchCalls,             \* number of refetch() calls made by timer ticks
    refetchIdentity,          \* identity of the `refetch` function (effect dependency)
    selectedLocation,         \* state
    selectedJourney,          \* state
    showJourneyModal,         \* state
    \* ---- Two runs of the processing effect, side by side ----
    placement                 \* [done, vehicle, indexA, indexB, othersA, othersB, runA, runB]

mapVars == <<mapPhase, data, initialVehicles, selectedVehicle, showOnlySelected,
             displayVehicles, updatingSelectedVehicle, vehiclePositionCache,
             intervalId, inflight, latestResponse, reqCause, loading, mapIsInitialLoad>>
modalVars == <<modalPhase, vehicle, animatedPosition, prevPosRef, animation, lastEffect>>
liveVars == <<livePhase, vehicles, isInitialLoad, error, liveSelected, liveTimers,
              liveFetches, liveHist, liveLast>>
dashVars == <<dashPhase, selectedTab, dashTimers, refetchCalls, refetchIdentity,
              selectedLocation, selectedJourney, showJourneyModal>>
placeVars == <<placement>>
vars == <<mapVars, modalVars, liveVars, dashVars, placeVars>>
notMap == <<modalVars, liveVars, dashVars, placeVars>>
notModal == <<mapVars, liveVars, dashVars, placeVars>>
notLive == <<mapVars, modalVars, dashVars, placeVars>>
notDash == <<mapVars, modalVars, liveVars, placeVars>>
notPlace == <<mapVars, modalVars, liveVars, dashVars>>

(***************************************************************************)
(* Arithmetic helpers                                                      *)
(***************************************************************************)
Abs(x) == IF x < 0 THEN 0 - x ELSE x

Min(a, b) == IF a < b THEN a ELSE b

\* Fixed-point scale of sines, cosines and radians (1e-4).
TrigScale == 100 * 100

\* pi/2, pi and 2*pi in 1e-4 radian.
Pi == 31416
HalfPi == Pi \div 2
TwoPi == 2 * Pi

\* sin on [0, pi/2] by its Taylor series, x and result in 1e-4.
SinQuadrant(x) ==
    LET x2 == (x * x) \div TrigScale
        t3 == ((x * x2) \div TrigScale) \div 6
        t5 == ((((x * x2) \div TrigScale) * x2) \div TrigScale) \div 120
        t7 == ((t5 * x2) \div TrigScale) \div 42
        t9 == ((t7 * x2) \div TrigScale) \div 72
    IN  Min(TrigScale, x - t3 + t5 - t7 + t9)

\* Math.sin, argument and result in 1e-4.
Sin(a) ==
    LET r == a % TwoPi
    IN  IF r <= HalfPi THEN SinQuadrant(r)
        ELSE IF r <= Pi THEN SinQuadrant(Pi - r)
        ELSE IF r <= Pi + HalfPi THEN 0 - SinQuadrant(r - Pi)
        ELSE 0 - SinQuadrant(TwoPi - r)

\* Math.cos, argument and result in 1e-4.
Cos(a) == Sin(a + HalfPi)

\* a * b / TrigScale with a a sine or cosine (1e-4), truncated toward zero.
Scale(a, b) == IF a < 0 THEN 0 - (((0 - a) * b) \div TrigScale) ELSE (a * b) \div TrigScale

(***************************************************************************)
(* JavaScript numbers wider than 32 bits: n = hi * Word + lo, 0 <= lo < Word *)
(***************************************************************************)
Word == 256 * 256

Norm(hi, lo) == <<hi + (lo \div Word), lo % Word>>

\* hash << 5: ToInt32 of the operand, shifted, kept to 32 bits, signed.
Shl5(h) ==
    LET lo32 == h[2] * 32
        hiU == (h[1] * 32 + (lo32 \div Word)) % Word
    IN  <<IF hiU >= Word \div 2 THEN hiU - Word ELSE hiU, lo32 % Word>>

\* hash = charCode + ((hash << 5) - hash)
HashStep(h, c) == LET s == Shl5(h) IN Norm(s[1] - h[1], s[2] - h[2] + c)

RECURSIVE HashLoop(_, _, _)
HashLoop(id, i, h) ==
    IF i > Len(id) THEN h ELSE HashLoop(id, i + 1, HashStep(h, id[i]))

\* Math.abs(hash)
AbsWide(h) == IF h[1] < 0 THEN Norm(0 - h[1], 0 - h[2]) ELSE h

\* The hash of a vehicle id, as computed by the loop over its characters.
VehicleHash(id) == AbsWide(HashLoop(id, 1, <<0, 0>>))

\* hash % m for 0 < m <= 1000
HashMod(h, m) == ((h[1] % m) * (Word % m) + h[2]) % m

(***************************************************************************)
(* AnimatedVehicleMap: the vehicle-processing effect                       *)
(***************************************************************************)
\* A coordinate that is undefined or null.
Missing == 0 - 1000000000

\* Central London, the base of generated positions (51.5074, -0.1278).
CentralLat == 51507400
CentralLon == 0 - 127800

\* 0.001 degree: how far a vehicle may move before its cached position is dropped.
CacheTolerance == 1000
\* 0.0001 degree: vehicles closer than this share coordinates.
SameCoordTolerance == 100
\* 0.1 degree: "must be a real coordinate".
MinRealCoord == 100000
\* 0.005 degree base radius; 0.003 degree of hash-dependent radius, per percent.
BaseRadius == 5000
HashRadiusStep == 30
\* index * 0.05 radian.
IndexAngle == 500
\* index * 0.618 radian; 0.02 degree of index-dependent offset.
GoldenAngle == 6180
IndexSpread == 20000
\* latSpread 0.15 and lonSpread 0.2 degree, per thousandth.
LatSpreadStep == 150
LonSpreadStep == 200

\* "vehicle-" as character codes, and the decimal digits of an index.
VehiclePrefix == <<118, 101, 104, 105, 99, 108, 101, 45>>

RECURSIVE Digits(_)
Digits(n) == IF n < 10 THEN <<48 + n>> ELSE Append(Digits(n \div 10), 48 + (n % 10))

\* const vehicleId = vehicle.vehicleId || `vehicle-${index}`
VehicleIdOf(v, index) ==
    IF v.vehicleId # <<>> THEN v.vehicleId ELSE VehiclePrefix \o Digits(index)

\* const isSelected = selectedVehicle && selectedVehicle.vehicleId === vehicleId
IsSelected(sel, vehicleId) == sel.present /\ sel.vehicleId = vehicleId

HasValidCoords(v) ==
    /\ v.lat # Missing
    /\ v.lon # Missing
    /\ v.lat # 0
    /\ v.lon # 0
    /\ Abs(v.lat) > MinRealCoord
    /\ Abs(v.lon) > MinRealCoord

\* vehicles.filter(v => |v.lat - baseLat| < 0.0001 && |v.lon - baseLon| < 0.0001).length
\* (an undefined coordinate makes the comparison false)
SameCoordCount(all, baseLat, baseLon) ==
    Cardinality({j \in 1..Len(all) :
        /\ all[j].lat # Missing
        /\ all[j].lon # Missing
        /\ Abs(all[j].lat - baseLat) < SameCoordTolerance
        /\ Abs(all[j].lon - baseLon) < SameCoordTolerance})

\* A faulty variant of SpreadMultiplier: spreads as soon as two vehicles share
\* their coordinates.
SpreadMultiplierEager(sameCoordCount) == IF sameCoordCount > 1 THEN 3 ELSE 1

SpreadMultiplier(sameCoordCount) ==
    IF sameCoordCount > 50 THEN 10
    ELSE IF sameCoordCount > 20 THEN 7
    ELSE IF sameCoordCount > 10 THEN 5
    ELSE IF sameCoordCount > 5 THEN 3
    ELSE 1

\* A faulty variant of CacheUsable: compares the reported coordinates with the
\* cached displayed position instead of the cached base.
CacheUsableByPosition(cachedPos, baseLat, baseLon) ==
    /\ Abs(cachedPos.lat - baseLat) < CacheTolerance
    /\ Abs(cachedPos.lon - baseLon) < CacheTolerance

\* The cached position may be reused: the base coordinates have not changed much.
CacheUsable(cachedPos, baseLat, baseLon) ==
    /\ Abs(cachedPos.baseLat - baseLat) < CacheTolerance
    /\ Abs(cachedPos.baseLon - baseLon) < CacheTolerance

\* "Calculate new position": a point on a circle around the base position.
FreshPosition(vehicleId, index, baseLat, baseLon, spreadMultiplier) ==
    LET hash == VehicleHash(vehicleId)
        angle == (HashMod(hash, 360) * Pi) \div 180 + index * IndexAngle
        radius == BaseRadius * spreadMultiplier + HashMod(hash, 100) * HashRadiusStep
    IN  [lat |-> baseLat + Scale(Sin(angle), radius),
         lon |-> baseLon + Scale(Cos(angle), radius)]

\* "Generate unique position based on hash and index" around Central London.
GeneratedPosition(vehicleId, index) ==
    LET hash == VehicleHash(vehicleId)
        h7 == (HashMod(hash, 1000) * 7) % 1000
    IN  [lat |-> CentralLat + (HashMod(hash, 1000) - 500) * LatSpreadStep
                   + Scale(Sin(index * GoldenAngle), IndexSpread),
         lon |-> CentralLon + (h7 - 500) * LonSpreadStep
                   + Scale(Cos(index * GoldenAngle), IndexSpread)]

CacheEntry(lat, lon, baseLat, baseLon) ==
    [lat |-> lat, lon |-> lon, baseLat |-> baseLat, baseLon |-> baseLon]

\* vehiclePositionCache.current.set(vehicleId, entry)
CacheSet(cache, vehicleId, entry) ==
    [k \in DOMAIN cache \cup {vehicleId} |-> IF k = vehicleId THEN entry ELSE cache[k]]

EmptyCache == [k \in {} |-> CacheEntry(0, 0, 0, 0)]

\* One call of the map callback: the position of one vehicle and the cache after it.
ProcessVehicle(v, index, all, cache, sel) ==
    LET vehicleId == VehicleIdOf(v, index)
        isSelected == IsSelected(sel, vehicleId)
        hasCached == vehicleId \in DOMAIN cache
        cached(f) == cache[vehicleId][f]
        at(lat, lon, c) == [lat |-> lat, lon |-> lon, cache |-> c]
    IN  IF HasValidCoords(v)
        THEN IF isSelected /\ hasCached
             THEN at(cached("lat"), cached("lon"), cache)
             ELSE IF isSelected
             THEN at(v.lat, v.lon, CacheSet(cache, vehicleId, CacheEntry(v.lat, v.lon, v.lat, v.lon)))
             ELSE IF hasCached /\ CacheUsable(cache[vehicleId], v.lat, v.lon)
             THEN at(cached("lat"), cached("lon"), cache)
             ELSE LET p == FreshPosition(vehicleId, index, v.lat, v.lon,
                                         SpreadMultiplier(SameCoordCount(all, v.lat, v.lon)))
                  IN  at(p.lat, p.lon,
                         CacheSet(cache, vehicleId, CacheEntry(p.lat, p.lon, v.lat, v.lon)))
        ELSE IF hasCached
             THEN at(cached("lat"), cached("lon"), cache)
             ELSE LET p == GeneratedPosition(vehicleId, index)
                  IN  at(p.lat, p.lon,
                         CacheSet(cache, vehicleId,
                                  CacheEntry(p.lat, p.lon, CentralLat, CentralLon)))

\* The entry of processedVehicles built from a vehicle and its position.
ProcessedEntry(v, index, p) ==
    [vehicleId |-> v.vehicleId, currentLat |-> p.lat, currentLon |-> p.lon,
     vehicleIndex |-> index]

\* vehicles.map((vehicle, index) => ...): entries i..Len(all), threading the cache.
RECURSIVE ProcessFrom(_, _, _, _, _)
ProcessFrom(all, i, cache, sel, acc) ==
    IF i > Len(all) THEN [processed |-> acc, cache |-> cache]
    ELSE LET r == ProcessVehicle(all[i], i - 1, all, cache, sel)
         IN  ProcessFrom(all, i + 1, r.cache, sel,
                         Append(acc, ProcessedEntry(all[i], i - 1, r)))

ProcessVehicles(all, cache, sel) == ProcessFrom(all, 1, cache, sel, <<>>)

\* The variant of the filter that is applied whenever a vehicle is selected.
FilterSelectedAlways(processed, sel, show) ==
    IF sel.present
    THEN SelectSeq(processed, LAMBDA e : e.vehicleId = sel.vehicleId)
    ELSE processed

\* processedVehicles.filter(v => v.vehicleId === selectedVehicle.vehicleId)
FilterSelected(processed, sel, show) ==
    IF show /\ sel.present
    THEN SelectSeq(processed, LAMBDA e : e.vehicleId = sel.vehicleId)
    ELSE processed

(***************************************************************************)
(* AnimatedVehicleMap: inputs of the model                                 *)
(***************************************************************************)
\* Longest vehicle list; most selectedVehiclePosition requests in flight.
MaxLen == 2
MaxInflight == 1

\* Vehicle ids "A" and "B".
IdA == <<65>>
IdB == <<66>>
\* The ids a parent may select, and so the ids requests are made for.
RequestIds == {IdA}

Vehicle(id, lat, lon) == [vehicleId |-> id, lat |-> lat, lon |-> lon]

\* Reported vehicles: "A" at a position and 0.002 degree east of it; "B" at
\* the same position and without coordinates.
VehiclePool ==
    { Vehicle(IdA, CentralLat, CentralLon),
      Vehicle(IdA, CentralLat, CentralLon + 2000),
      Vehicle(IdB, CentralLat, CentralLon),
      Vehicle(IdB, Missing, Missing) }

VehicleLists == UNION {[1..n -> VehiclePool] : n \in 0..MaxLen}

\* The `vehicles` prop at mount.
InitialLists == { <<>>, <<Vehicle(IdA, CentralLat, CentralLon), Vehicle(IdB, CentralLat, CentralLon)>> }

NoSelection == [present |-> FALSE, vehicleId |-> <<>>]
Selection(id) == [present |-> TRUE, vehicleId |-> id]
Selections == {NoSelection} \cup {Selection(id) : id \in RequestIds}

\* Positions a selectedVehiclePosition response may report.
\* (0.0007 degree north of the reported position: within the cache tolerance)
ResponsePositions == { [lat |-> CentralLat + 700, lon |-> CentralLon] }

NoTimer == [active |-> FALSE, vehicleId |-> <<>>, updating |-> FALSE]
Timer(vehicleId, captured) == [active |-> TRUE, vehicleId |-> vehicleId, updating |-> captured]

NoResponse == [has |-> FALSE, vehicleId |-> <<>>, lat |-> 0, lon |-> 0]

RECURSIVE SumOver(_, _)
SumOver(f, S) ==
    IF S = {} THEN 0 ELSE LET x == CHOOSE y \in S : TRUE IN f[x] + SumOver(f, S \ {x})

TotalInflight(infl) == SumOver(infl, DOMAIN infl)

(***************************************************************************)
(* AnimatedVehicleMap: effects                                             *)
(***************************************************************************)
\* const vehicles = data?.vehicleTracking || initialVehicles || []
CurrentVehicles(d, init) == IF d.loaded THEN d.vehicleTracking ELSE init

\* The body of the selected-vehicle effect, run from a render in which
\* updatingSelectedVehicle was `captured`: the immediate call of
\* updateSelectedVehiclePosition and the new interval.  `upd` and `infl` are
\* the state and the requests in flight when it runs.
SelectedEffect(sel, captured, upd, infl) ==
    IF ~sel.present \/ sel.vehicleId = <<>>
    THEN [timer |-> NoTimer, updating |-> upd, inflight |-> infl, started |-> FALSE]
    ELSE IF captured
    THEN [timer |-> Timer(sel.vehicleId, captured), updating |-> upd, inflight |-> infl,
          started |-> FALSE]
    ELSE [timer |-> Timer(sel.vehicleId, captured), updating |-> TRUE,
          inflight |-> [infl EXCEPT ![sel.vehicleId] = @ + 1], started |-> TRUE]

\* The runs of the selected-vehicle effect that follow one update: in the
\* commit of the update when selectedVehicle changed, and again in the next
\* commit when the update replaced displayVehicles (its cleanup clears the
\* interval of the run before).
EffectRuns(sel, selChanged, displayChanged, upd, infl, timer) ==
    LET e0 == [timer |-> timer, updating |-> upd, inflight |-> infl, started |-> FALSE]
        e1 == IF selChanged THEN SelectedEffect(sel, upd, upd, infl) ELSE e0
        e2 == IF displayChanged
              THEN SelectedEffect(sel, e1.updating, e1.updating, e1.inflight)
              ELSE e1
    IN  [timer |-> e2.timer, updating |-> e2.updating, inflight |-> e2.inflight,
         cause |-> IF displayChanged /\ e2.started THEN "refresh"
                   ELSE IF e1.started THEN "selection" ELSE "none"]

\* The processing effect on the current list, followed by the runs of the
\* selected-vehicle effect it and a changed selection bring about.
RunEffects(list, sel, show, selChanged) ==
    LET run == ProcessVehicles(list, vehiclePositionCache, sel)
        displayChanged == Len(list) > 0
        e == EffectRuns(sel, selChanged, displayChanged, updatingSelectedVehicle,
                        inflight, intervalId)
    IN  /\ IF displayChanged
           THEN /\ vehiclePositionCache' = run.cache
                /\ displayVehicles' = FilterSelected(run.processed, sel, show)
           ELSE UNCHANGED <<vehiclePositionCache, displayVehicles>>
        /\ TotalInflight(e.inflight) <= MaxInflight
        /\ intervalId' = e.timer
        /\ updatingSelectedVehicle' = e.updating
        /\ inflight' = e.inflight
        /\ reqCause' = IF e.cause = "none" THEN reqCause ELSE e.cause

(***************************************************************************)
(* AnimatedVehicleMap: actions                                             *)
(***************************************************************************)
\* if (data?.vehicleTracking && isInitialLoad) setIsInitialLoad(false)
InitialLoadEffect(d, initial) == IF d.loaded /\ initial THEN FALSE ELSE initial

\* {loading && isInitialLoad && (<div ...>Loading bus locations...</div>)}
\* LoadingPanelOnAnyLoad is the variant that ignores isInitialLoad.
LoadingPanelOnAnyLoad(isLoading, initial) == isLoading

LoadingPanel(isLoading, initial) == isLoading /\ initial

MapInit ==
    /\ mapPhase = "init"
    /\ data = [loaded |-> FALSE, vehicleTracking |-> <<>>]
    /\ initialVehicles = <<>>
    /\ selectedVehicle = NoSelection
    /\ showOnlySelected = FALSE
    /\ displayVehicles = <<>>
    /\ updatingSelectedVehicle = FALSE
    /\ vehiclePositionCache = EmptyCache
    /\ intervalId = NoTimer
    /\ inflight = [id \in RequestIds |-> 0]
    /\ latestResponse = NoResponse
    /\ reqCause = "none"
    /\ loading = FALSE
    /\ mapIsInitialLoad = TRUE

\* The component is mounted with its props; the effects of the first commit run.
MapMount(init, sel, show) ==
    /\ mapPhase = "init"
    /\ mapPhase' = "mounted"
    /\ initialVehicles' = init
    /\ selectedVehicle' = sel
    /\ showOnlySelected' = show
    /\ latestResponse' = NoResponse
    /\ RunEffects(init, sel, show, TRUE)
    /\ loading' = TRUE
    /\ mapIsInitialLoad' = InitialLoadEffect(data, mapIsInitialLoad)
    /\ UNCHANGED <<data, notMap>>

\* pollInterval: 5000 with notifyOnNetworkStatusChange: the next request
\* starts and useQuery reports loading.
PollStarts ==
    /\ mapPhase = "mounted"
    /\ ~loading
    /\ loading' = TRUE
    /\ UNCHANGED <<mapPhase, data, initialVehicles, selectedVehicle, showOnlySelected,
                   displayVehicles, updatingSelectedVehicle, vehiclePositionCache,
                   intervalId, inflight, latestResponse, reqCause, mapIsInitialLoad,
                   notMap>>

\* The request ends without a new `data`: the same result as before, or an
\* error.
PollEnds ==
    /\ mapPhase = "mounted"
    /\ loading
    /\ loading' = FALSE
    /\ UNCHANGED <<mapPhase, data, initialVehicles, selectedVehicle, showOnlySelected,
                   displayVehicles, updatingSelectedVehicle, vehiclePositionCache,
                   intervalId, inflight, latestResponse, reqCause, mapIsInitialLoad,
                   notMap>>

\* A poll of GET_VEHICLE_TRACKING delivers a list; useQuery hands out a new
\* `data` only when the result differs from the one before.
PollRefresh(list) ==
    /\ mapPhase = "mounted"
    /\ loading
    /\ ~data.loaded \/ list # data.vehicleTracking
    /\ data' = [loaded |-> TRUE, vehicleTracking |-> list]
    /\ loading' = FALSE
    /\ mapIsInitialLoad' = InitialLoadEffect(data', mapIsInitialLoad)
    /\ UNCHANGED <<mapPhase, initialVehicles, selectedVehicle, showOnlySelected,
                   latestResponse, notMap>>
    /\ RunEffects(list, selectedVehicle, showOnlySelected, FALSE)

\* The parent passes another selectedVehicle.
SelectVehicle(sel) ==
    /\ mapPhase = "mounted"
    /\ sel # selectedVehicle
    /\ selectedVehicle' = sel
    /\ latestResponse' = NoResponse
    /\ RunEffects(CurrentVehicles(data, initialVehicles), sel, showOnlySelected, TRUE)
    /\ UNCHANGED <<mapPhase, data, initialVehicles, showOnlySelected, loading,
                   mapIsInitialLoad, notMap>>

\* The 15 s interval fires: updateSelectedVehiclePosition of the closure it holds.
TimerTick ==
    /\ mapPhase = "mounted"
    /\ intervalId.active
    /\ IF intervalId.updating
       THEN UNCHANGED <<updatingSelectedVehicle, inflight, reqCause>>
       ELSE /\ TotalInflight(inflight) < MaxInflight
            /\ updatingSelectedVehicle' = TRUE
            /\ inflight' = [inflight EXCEPT ![intervalId.vehicleId] = @ + 1]
            /\ reqCause' = "timer"
    /\ UNCHANGED <<mapPhase, data, initialVehicles, selectedVehicle, showOnlySelected,
                   displayVehicles, vehiclePositionCache, intervalId, latestResponse,
                   loading, mapIsInitialLoad, notMap>>

\* prevVehicles.map(vehicle => vehicle.vehicleId === id ? {...updatedPosition} : vehicle)
ApplyResponse(display, vehicleId, pos) ==
    [i \in 1..Len(display) |->
        IF display[i].vehicleId = vehicleId
        THEN [display[i] EXCEPT !.currentLat = pos.lat, !.currentLon = pos.lon]
        ELSE display[i]]

\* A request for `vehicleId` is answered with a position.  With `batched` the
\* state updates of the handler are rendered together; without, displayVehicles
\* is rendered (and the selected-vehicle effect runs) before the finally block
\* resets updatingSelectedVehicle.
ResponseArrives(vehicleId, pos, batched) ==
    /\ mapPhase = "mounted"
    /\ inflight[vehicleId] > 0
    /\ vehiclePositionCache' =
           CacheSet(vehiclePositionCache, vehicleId, CacheEntry(pos.lat, pos.lon, pos.lat, pos.lon))
    /\ LET infl == [inflight EXCEPT ![vehicleId] = @ - 1]
           e == EffectRuns(selectedVehicle, FALSE, TRUE,
                           IF batched THEN FALSE ELSE updatingSelectedVehicle,
                           infl, intervalId)
       IN  /\ displayVehicles' = ApplyResponse(displayVehicles, vehicleId, pos)
           /\ intervalId' = e.timer
           /\ inflight' = e.inflight
           /\ updatingSelectedVehicle' = IF batched THEN e.updating ELSE FALSE
           /\ reqCause' = IF e.cause = "none" THEN reqCause ELSE e.cause
    /\ latestResponse' =
           IF IsSelected(selectedVehicle, vehicleId)
           THEN [has |-> TRUE, vehicleId |-> vehicleId, lat |-> pos.lat, lon |-> pos.lon]
           ELSE latestResponse
    /\ UNCHANGED <<mapPhase, data, initialVehicles, selectedVehicle, showOnlySelected,
                   loading, mapIsInitialLoad, notMap>>

\* A request for `vehicleId` fails or is answered without a position.
ResponseFails(vehicleId) ==
    /\ mapPhase = "mounted"
    /\ inflight[vehicleId] > 0
    /\ inflight' = [inflight EXCEPT ![vehicleId] = @ - 1]
    /\ updatingSelectedVehicle' = FALSE
    /\ UNCHANGED <<mapPhase, data, initialVehicles, selectedVehicle, showOnlySelected,
                   displayVehicles, vehiclePositionCache, intervalId, latestResponse,
                   reqCause, loading, mapIsInitialLoad, notMap>>

\* The component is unmounted: the cleanup of the selected-vehicle effect clears
\* the interval, and the state and the ref of the instance are discarded.
MapUnmount ==
    /\ mapPhase = "mounted"
    /\ mapPhase' = "closed"
    /\ intervalId' = NoTimer
    /\ data' = [loaded |-> FALSE, vehicleTracking |-> <<>>]
    /\ initialVehicles' = <<>>
    /\ selectedVehicle' = NoSelection
    /\ showOnlySelected' = FALSE
    /\ displayVehicles' = <<>>
    /\ updatingSelectedVehicle' = FALSE
    /\ vehiclePositionCache' = EmptyCache
    /\ inflight' = [id \in RequestIds |-> 0]
    /\ latestResponse' = NoResponse
    /\ reqCause' = "none"
    /\ loading' = FALSE
    /\ mapIsInitialLoad' = TRUE
    /\ UNCHANGED notMap

MapNext ==
    \/ \E init \in InitialLists, sel \in Selections, show \in BOOLEAN : MapMount(init, sel, show)
    \/ PollStarts
    \/ PollEnds
    \/ \E list \in VehicleLists : PollRefresh(list)
    \/ \E sel \in Selections : SelectVehicle(sel)
    \/ TimerTick
    \/ \E id \in RequestIds, pos \in ResponsePositions, batched \in BOOLEAN :
           ResponseArrives(id, pos, batched)
    \/ \E id \in RequestIds : ResponseFails(id)
    \/ MapUnmount

(***************************************************************************)
(* VehicleMapModal: the position effect and its animation                  *)
(***************************************************************************)
\* const duration = 2000 (ms); prevData.timeToStation || 60
Duration == 2000
DefaultMaxTime == 60

NoStop == [present |-> FALSE, lat |-> 0, lon |-> 0]
Stop(lat, lon) == [present |-> TRUE, lat |-> lat, lon |-> lon]

\* The vehicle prop: a coordinate or a time that is 0 stands for a falsy value
\* (0 or undefined), which the component replaces by its defaults.
ModalVehicles ==
    [lat : {0, CentralLat + 4000},
     lon : {0, CentralLon + 4000},
     timeToStation : {0, 30, 60, 90},
     nextStopCoords : {NoStop, Stop(CentralLat + 12000, CentralLon - 2000)}]

\* Milliseconds between two animation frames.
FrameSteps == {800, 1200}

NoAnimation == [active |-> FALSE, elapsed |-> 0 - 1, from |-> <<0, 0>>, to |-> <<0, 0>>,
                timeDiff |-> 0, maxTime |-> 1]

\* const currentLat = vehicle.lat || 51.5074, currentLon = vehicle.lon || -0.1278
CurrentLat(v) == IF v.lat = 0 THEN CentralLat ELSE v.lat
CurrentLon(v) == IF v.lon = 0 THEN CentralLon ELSE v.lon

\* prevPosRef.current = { lat: currentLat, lon: currentLon, timeToStation: ... }
RefOf(v) == [lat |-> CurrentLat(v), lon |-> CurrentLon(v), timeToStation |-> v.timeToStation]

\* "Only animate if timeToStation decreased (bus is moving closer)"
ShouldAnimate(prevData, v) ==
    /\ prevData.timeToStation > v.timeToStation
    /\ v.nextStopCoords.present
    /\ prevData.lat # 0
    /\ prevData.lon # 0

\* A faulty variant of Progress: t is not capped at 1.
ProgressUnclamped(elapsed) == (elapsed * TrigScale) \div Duration

\* const t = Math.min(1, (timestamp - start) / duration), in 1e-4
Progress(elapsed) == (Min(elapsed, Duration) * TrigScale) \div Duration

\* const eased = 1 - (1 - t) * (1 - t), in 1e-4
Eased(t) == TrigScale - ((TrigScale - t) * (TrigScale - t)) \div TrigScale

\* a * b / c on integers, truncated toward zero.
TruncDiv(a, b) == IF a < 0 THEN 0 - ((0 - a) \div b) ELSE a \div b

\* from + (to - from) * eased * timeProgress, with
\* timeProgress = Math.min(1, timeDiff / maxTime)
Interpolate(from, to, eased, timeDiff, maxTime) ==
    LET share == TruncDiv((to - from) * Min(timeDiff, maxTime), maxTime)
    IN  from + TruncDiv(share * eased, TrigScale)

\* The body of the position effect for vehicle `v`, after the cleanup of the
\* run before (which cancels a pending animation frame). `prevData` is
\* prevPosRef.current, `shown` the animatedPosition state and `beforeTime` the
\* timeToStation of the vehicle prop of the render before.
PositionEffect(v, prevData, shown, beforeTime) ==
    IF ShouldAnimate(prevData, v)
    THEN /\ animation' = [active |-> TRUE, elapsed |-> 0 - 1,
                          from |-> <<prevData.lat, prevData.lon>>,
                          to |-> <<v.nextStopCoords.lat, v.nextStopCoords.lon>>,
                          timeDiff |-> prevData.timeToStation - v.timeToStation,
                          maxTime |-> IF prevData.timeToStation = 0
                                      THEN DefaultMaxTime ELSE prevData.timeToStation]
         /\ lastEffect' = [outcome |-> "animate", beforeTime |-> beforeTime]
         /\ animatedPosition' = shown
         /\ prevPosRef' = prevData
    ELSE /\ animation' = NoAnimation
         /\ IF CurrentLat(v) # prevData.lat \/ CurrentLon(v) # prevData.lon
            THEN /\ animatedPosition' = <<CurrentLat(v), CurrentLon(v)>>
                 /\ lastEffect' = [outcome |-> "jump", beforeTime |-> beforeTime]
            ELSE /\ animatedPosition' = shown
                 /\ lastEffect' = [outcome |-> "stay", beforeTime |-> beforeTime]
         /\ prevPosRef' = RefOf(v)

ModalInit ==
    /\ modalPhase = "init"
    /\ vehicle = [lat |-> 0, lon |-> 0, timeToStation |-> 0, nextStopCoords |-> NoStop]
    /\ animatedPosition = <<0, 0>>
    /\ prevPosRef = [lat |-> 0, lon |-> 0, timeToStation |-> 0]
    /\ animation = NoAnimation
    /\ lastEffect = [outcome |-> "none", beforeTime |-> 0]

\* The modal is mounted with a vehicle: the useState and useRef initialisers
\* take the raw props, then the position effect runs for the first time.
ModalMount(v) ==
    /\ modalPhase = "init"
    /\ modalPhase' = "mounted"
    /\ vehicle' = v
    /\ PositionEffect(v, [lat |-> v.lat, lon |-> v.lon, timeToStation |-> v.timeToStation],
                      <<v.lat, v.lon>>, v.timeToStation)
    /\ UNCHANGED notModal

\* The parent passes an updated vehicle object; the effect runs when one of its
\* dependencies changed (a present nextStopCoords is a new object every time).
ModalUpdate(v) ==
    /\ modalPhase = "mounted"
    /\ vehicle' = v
    /\ IF v.lat # vehicle.lat \/ v.lon # vehicle.lon
          \/ v.timeToStation # vehicle.timeToStation
          \/ v.nextStopCoords.present \/ vehicle.nextStopCoords.present
       THEN PositionEffect(v, prevPosRef, animatedPosition, vehicle.timeToStation)
       ELSE UNCHANGED <<animatedPosition, prevPosRef, animation, lastEffect>>
    /\ UNCHANGED <<modalPhase, notModal>>

\* An animation frame: step(timestamp).
ModalFrame(dt) ==
    /\ modalPhase = "mounted"
    /\ animation.active
    /\ LET elapsed == IF animation.elapsed < 0 THEN 0 ELSE animation.elapsed + dt
           eased == Eased(Progress(elapsed))
       IN  /\ animatedPosition' =
                  <<Interpolate(animation.from[1], animation.to[1], eased,
                                animation.timeDiff, animation.maxTime),
                    Interpolate(animation.from[2], animation.to[2], eased,
                                animation.timeDiff, animation.maxTime)>>
           /\ animation' = [animation EXCEPT !.elapsed = elapsed,
                                             !.active = elapsed < Duration]
    /\ UNCHANGED <<modalPhase, vehicle, prevPosRef, lastEffect, notModal>>

\* The modal is closed: the cleanup of the effect cancels the pending frame.
ModalUnmount ==
    /\ modalPhase = "mounted"
    /\ modalPhase' = "closed"
    /\ animation' = [animation EXCEPT !.active = FALSE]
    /\ UNCHANGED <<vehicle, animatedPosition, prevPosRef, lastEffect, notModal>>

ModalNext ==
    \/ \E v \in ModalVehicles : ModalMount(v)
    \/ \E v \in ModalVehicles : ModalUpdate(v)
    \/ \E dt \in FrameSteps : ModalFrame(dt)
    \/ ModalUnmount


(***************************************************************************)
(* LiveVehicles: the fetch effect                                          *)
(***************************************************************************)
MaxFetches == 2

LiveVehicle(id, tts) == [vehicleId |-> id, timeToStation |-> tts]
NoVehicle == [vehicleId |-> <<>>, timeToStation |-> 0]

\* The vehicle lists the backend may answer with.
LiveLists == {<<>>,
              <<LiveVehicle(IdA, 30)>>,
              <<LiveVehicle(IdA, 60), LiveVehicle(IdB, 30)>>,
              <<LiveVehicle(IdB, 30)>>}

\* The smallest timer id that is not in use.
FreshId(timers) == CHOOSE n \in 0..Cardinality(timers) : \A t \in timers : t.id # n

\* const interval = setInterval(fetchVehicles, 10000): the callback is the
\* fetchVehicles of this effect run, which captured isInitialLoad.
StartInterval(timers, captured) == timers \cup {[id |-> FreshId(timers), captured |-> captured]}

\* return () => clearInterval(interval): clears the interval of the latest run.
ClearInterval(timers) == {t \in timers : \E u \in timers : u.id > t.id}

FetchesInFlight(f) == f[TRUE] + f[FALSE]
StartFetch(f, captured) == [f EXCEPT ![captured] = @ + 1]
EndFetch(f, captured) == [f EXCEPT ![captured] = @ - 1]

\* data.find(v => v.vehicleId === prev.vehicleId)
RECURSIVE Find(_, _, _)
Find(list, i, vehicleId) ==
    IF i > Len(list) THEN NoVehicle
    ELSE IF list[i].vehicleId = vehicleId THEN list[i]
    ELSE Find(list, i + 1, vehicleId)

\* The variant of the updater without the fallback to prev: return found.
RefreshSelectedFoundOnly(prev, list) ==
    IF prev = NoVehicle THEN prev
    ELSE Find(list, 1, prev.vehicleId)

\* setSelectedVehicle(prev => { if (!prev) return prev; return found || prev; })
RefreshSelected(prev, list) ==
    IF prev = NoVehicle THEN prev
    ELSE IF Find(list, 1, prev.vehicleId) # NoVehicle THEN Find(list, 1, prev.vehicleId)
    ELSE prev

\* No fetchVehicles call has ended yet.
NoOutcome == [outcome |-> "none", response |-> <<>>, succeeded |-> FALSE]

LiveInit ==
    /\ livePhase = "init"
    /\ vehicles = <<>>
    /\ isInitialLoad = TRUE
    /\ error = "null"
    /\ liveSelected = NoVehicle
    /\ liveTimers = {}
    /\ liveFetches = [b \in BOOLEAN |-> 0]
    /\ liveHist = "none"
    /\ liveLast = NoOutcome

\* The effect as it runs after a render in which isInitialLoad changed (or the
\* first render): cleanup of the run before, fetchVehicles(), setInterval.
FetchEffect(captured, fetches, cause) ==
    /\ liveFetches' = StartFetch(fetches, captured)
    /\ liveTimers' = StartInterval(ClearInterval(liveTimers), captured)
    /\ liveHist' = cause

LiveMount ==
    /\ livePhase = "init"
    /\ livePhase' = "mounted"
    /\ FetchEffect(isInitialLoad, liveFetches, "mount")
    /\ UNCHANGED <<vehicles, isInitialLoad, error, liveSelected, liveLast, notLive>>

\* A tick of a 10 s interval calls the fetchVehicles it was created with.
LiveTick ==
    /\ livePhase = "mounted"
    /\ FetchesInFlight(liveFetches) < MaxFetches
    /\ \E t \in liveTimers :
          /\ liveFetches' = StartFetch(liveFetches, t.captured)
          /\ liveHist' = "tick"
    /\ UNCHANGED <<livePhase, vehicles, isInitialLoad, error, liveSelected, liveTimers,
                   liveLast, notLive>>

\* The finally block, then the re-render: when isInitialLoad changed, the
\* effect runs again.
FetchFinally(captured) ==
    IF captured /\ isInitialLoad
    THEN /\ isInitialLoad' = FALSE
         /\ FetchEffect(FALSE, EndFetch(liveFetches, captured), "rerun")
    ELSE /\ liveFetches' = EndFetch(liveFetches, captured)
         /\ UNCHANGED <<isInitialLoad, liveTimers, liveHist>>

\* A fetchVehicles call completes with the list `list`.
FetchSucceeds(captured, list) ==
    /\ liveFetches[captured] > 0
    /\ IF livePhase = "mounted"
       THEN /\ vehicles' = list
            /\ error' = "null"
            /\ liveSelected' = RefreshSelected(liveSelected, list)
            /\ liveLast' = [outcome |-> "success", response |-> list, succeeded |-> TRUE]
            /\ FetchFinally(captured)
       ELSE /\ liveFetches' = EndFetch(liveFetches, captured)
            /\ UNCHANGED <<vehicles, error, liveSelected, isInitialLoad, liveTimers,
                           liveHist, liveLast>>
    /\ UNCHANGED <<livePhase, notLive>>

\* A fetchVehicles call throws (network error or response not ok).
FetchFails(captured) ==
    /\ liveFetches[captured] > 0
    /\ IF livePhase = "mounted"
       THEN /\ error' = "message"
            /\ liveLast' = [liveLast EXCEPT !.outcome = "failure"]
            /\ FetchFinally(captured)
            /\ UNCHANGED <<vehicles, liveSelected>>
       ELSE /\ liveFetches' = EndFetch(liveFetches, captured)
            /\ UNCHANGED <<vehicles, error, liveSelected, isInitialLoad, liveTimers,
                           liveHist, liveLast>>
    /\ UNCHANGED <<livePhase, notLive>>

\* if (isInitialLoad) return <Loading>; if (error && vehicles.length === 0)
\* return <Error>; otherwise the vehicle cards.  LiveScreenErrorFirst is the
\* variant that shows the error screen whenever an error is recorded.
LiveScreenErrorFirst(initial, err, list) ==
    IF initial THEN "loading"
    ELSE IF err # "null" THEN "error"
    ELSE "cards"

LiveScreen(initial, err, list) ==
    IF initial THEN "loading"
    ELSE IF err # "null" /\ Len(list) = 0 THEN "error"
    ELSE "cards"

\* The vehicle cards are rendered unless the loading or error screen is shown.
CardsShown ==
    /\ livePhase = "mounted"
    /\ ~isInitialLoad
    /\ ~(error # "null" /\ Len(vehicles) = 0)

\* onClick={() => setSelectedVehicle(vehicle)}
ShowOnMap(i) ==
    /\ CardsShown
    /\ i \in 1..Len(vehicles)
    /\ liveSelected' = vehicles[i]
    /\ UNCHANGED <<livePhase, vehicles, isInitialLoad, error, liveTimers, liveFetches,
                   liveHist, liveLast, notLive>>

\* onClose={() => setSelectedVehicle(null)}
LiveCloseModal ==
    /\ CardsShown
    /\ liveSelected # NoVehicle
    /\ liveSelected' = NoVehicle
    /\ UNCHANGED <<livePhase, vehicles, isInitialLoad, error, liveTimers, liveFetches,
                   liveHist, liveLast, notLive>>

\* The component is unmounted: the cleanup of the latest effect run.
LiveUnmount ==
    /\ livePhase = "mounted"
    /\ livePhase' = "unmounted"
    /\ liveTimers' = ClearInterval(liveTimers)
    /\ UNCHANGED <<vehicles, isInitialLoad, error, liveSelected, liveFetches, liveHist,
                   liveLast, notLive>>

LiveNext ==
    \/ LiveMount
    \/ LiveTick
    \/ \E captured \in BOOLEAN, list \in LiveLists : FetchSucceeds(captured, list)
    \/ \E captured \in BOOLEAN : FetchFails(captured)
    \/ \E i \in 1..2 : ShowOnMap(i)
    \/ LiveCloseModal
    \/ LiveUnmount

(***************************************************************************)
(* Dashboard: the auto-refresh effect                                      *)
(***************************************************************************)
MaxRefetch == 2

\* The tabs TopNav can switch to; only 'journey' and 'live' have a component.
Tabs == {"journey", "live", "tube"}
Journeys == {"journeyA", "journeyB"}
Locations == {"latlngA", "latlngB"}

\* const interval = setInterval(() => { refetch(); ... }, 30000)
StartRefresh(timers, refetch) ==
    timers \cup {[id |-> FreshId(timers), refetch |-> refetch]}

\* A faulty variant of ClearRefresh: the cleanup clears nothing.
ClearRefreshOmitted(timers) == timers

\* return () => clearInterval(interval)
ClearRefresh(timers) == {t \in timers : \E u \in timers : u.id > t.id}

\* The auto-refresh effect for the rendered tab: the cleanup of the run before
\* (if that run returned one), then the body.
RefreshEffect(timers, before, tab, refetch) ==
    LET cleaned == IF before = "live" THEN ClearRefresh(timers) ELSE timers
    IN  IF tab = "live" THEN StartRefresh(cleaned, refetch) ELSE cleaned

DashInit ==
    /\ dashPhase = "init"
    /\ selectedTab = "journey"
    /\ dashTimers = {}
    /\ refetchCalls = 0
    /\ refetchIdentity = 0
    /\ selectedLocation = "null"
    /\ selectedJourney = "null"
    /\ showJourneyModal = FALSE

\* First render: the effect runs without a cleanup before it.
DashMount ==
    /\ dashPhase = "init"
    /\ dashPhase' = "mounted"
    /\ dashTimers' = RefreshEffect(dashTimers, "none", selectedTab, refetchIdentity)
    /\ UNCHANGED <<selectedTab, refetchCalls, refetchIdentity, selectedLocation,
                   selectedJourney, showJourneyModal, notDash>>

\* onTabChange={setSelectedTab}: the effect runs again when the tab changed.
SetSelectedTab(tab) ==
    /\ dashPhase = "mounted"
    /\ selectedTab' = tab
    /\ dashTimers' = IF tab = selectedTab THEN dashTimers
                     ELSE RefreshEffect(dashTimers, selectedTab, tab, refetchIdentity)
    /\ UNCHANGED <<dashPhase, refetchCalls, refetchIdentity, selectedLocation,
                   selectedJourney, showJourneyModal, notDash>>

\* useQuery hands out a new refetch function: the effect runs again.
RefetchChanges ==
    /\ dashPhase = "mounted"
    /\ refetchIdentity' = 1 - refetchIdentity
    /\ dashTimers' = RefreshEffect(dashTimers, selectedTab, selectedTab, refetchIdentity')
    /\ UNCHANGED <<dashPhase, selectedTab, refetchCalls, selectedLocation,
                   selectedJourney, showJourneyModal, notDash>>

\* A tick of a 30 s interval: refetch().
RefreshTick ==
    /\ dashPhase = "mounted"
    /\ refetchCalls < MaxRefetch
    /\ dashTimers # {}
    /\ refetchCalls' = refetchCalls + 1
    /\ UNCHANGED <<dashPhase, selectedTab, dashTimers, refetchIdentity, selectedLocation,
                   selectedJourney, showJourneyModal, notDash>>

\* The map is rendered on tabs other than 'journey' and 'live'.
handleMapClick(latlng) ==
    /\ dashPhase = "mounted"
    /\ selectedTab \notin {"journey", "live"}
    /\ selectedLocation' = latlng
    /\ UNCHANGED <<dashPhase, selectedTab, dashTimers, refetchCalls, refetchIdentity,
                   selectedJourney, showJourneyModal, notDash>>

\* onRouteSelect of the journey planner.
handleJourneySelect(journey) ==
    /\ dashPhase = "mounted"
    /\ selectedTab = "journey"
    /\ ~showJourneyModal
    /\ selectedJourney' = journey
    /\ showJourneyModal' = TRUE
    /\ UNCHANGED <<dashPhase, selectedTab, dashTimers, refetchCalls, refetchIdentity,
                   selectedLocation, notDash>>

closeJourneyModal ==
    /\ dashPhase = "mounted"
    /\ showJourneyModal
    /\ showJourneyModal' = FALSE
    /\ selectedJourney' = "null"
    /\ UNCHANGED <<dashPhase, selectedTab, dashTimers, refetchCalls, refetchIdentity,
                   selectedLocation, notDash>>

\* The dashboard is unmounted: the cleanup of the latest effect run.
DashUnmount ==
    /\ dashPhase = "mounted"
    /\ dashPhase' = "unmounted"
    /\ dashTimers' = RefreshEffect(dashTimers, selectedTab, "none", refetchIdentity)
    /\ UNCHANGED <<selectedTab, refetchCalls, refetchIdentity, selectedLocation,
                   selectedJourney, showJourneyModal, notDash>>

DashNext ==
    \/ DashMount
    \/ \E tab \in Tabs : SetSelectedTab(tab)
    \/ RefetchChanges
    \/ RefreshTick
    \/ \E latlng \in Locations : handleMapClick(latlng)
    \/ \E journey \in Journeys : handleJourneySelect(journey)
    \/ closeJourneyModal
    \/ DashUnmount

(***************************************************************************)
(* The processing effect of a freshly mounted AnimatedVehicleMap, run on    *)
(* two lists that hold the same vehicle                                     *)
(***************************************************************************)
\* Highest index of the vehicle in its list.
MaxIndex == 3

\* Vehicle id "12".
IdC == <<49, 50>>

\* The vehicle placed: with coordinates in Central London, east of there at
\* longitude -0.05, on the equator at longitude -0.1278, at (0, 0) and
\* without coordinates.
PlacedVehicles ==
    { Vehicle(id, c[1], c[2]) :
        id \in {IdA, IdC},
        c \in { <<CentralLat, CentralLon>>, <<CentralLat, 0 - 50000>>,
                <<0, CentralLon>>, <<0, 0>>, <<Missing, Missing>> } }

\* The other vehicles of a list: all "B", 0.05 degree north of Central London
\* or at Central London itself.
OtherVehicles == { Vehicle(IdB, CentralLat + 50000, CentralLon),
                   Vehicle(IdB, CentralLat, CentralLon) }

\* A list with `v` at index `index` (from 0), after `index` times `other`.
ListWith(v, index, other) == [i \in 1..(index + 1) |-> IF i = index + 1 THEN v ELSE other]

NoPlacement ==
    [done |-> FALSE, vehicle |-> Vehicle(<<>>, Missing, Missing), indexA |-> 0, indexB |-> 0,
     othersA |-> Vehicle(<<>>, Missing, Missing), othersB |-> Vehicle(<<>>, Missing, Missing),
     runA |-> <<>>, runB |-> <<>>]

PlaceInit == placement = NoPlacement

\* Two freshly mounted components (empty cache, nothing selected) each run the
\* processing effect on a list that holds `v`.
PlaceTwice(v, indexA, indexB, othersA, othersB) ==
    /\ ~placement.done
    /\ placement' =
          [done |-> TRUE, vehicle |-> v, indexA |-> indexA, indexB |-> indexB,
           othersA |-> othersA, othersB |-> othersB,
           runA |-> ProcessVehicles(ListWith(v, indexA, othersA), EmptyCache, NoSelection).processed,
           runB |-> ProcessVehicles(ListWith(v, indexB, othersB), EmptyCache, NoSelection).processed]
    /\ UNCHANGED notPlace

PlaceNext ==
    \E v \in PlacedVehicles, indexA, indexB \in 0..MaxIndex, othersA, othersB \in OtherVehicles :
        PlaceTwice(v, indexA, indexB, othersA, othersB)

(***************************************************************************)
(* Specifications: one per component                                       *)
(***************************************************************************)
Init == MapInit /\ ModalInit /\ LiveInit /\ DashInit /\ PlaceInit

SpecPlace == Init /\ [][PlaceNext]_vars

SpecMap == Init /\ [][MapNext]_vars
SpecModal == Init /\ [][ModalNext]_vars
SpecLive == Init /\ [][LiveNext]_vars
SpecDash == Init /\ [][DashNext]_vars


(***************************************************************************)
(* Properties of AnimatedVehicleMap                                        *)
(***************************************************************************)
\* The list the processing effect works on after this step.
ListAfter == CurrentVehicles(data', initialVehicles')

\* This step ran the processing effect: the first commit, a new poll result or
\* a changed selection, with a list that is not empty.
ProcessingRan ==
    /\ mapPhase' = "mounted"
    /\ mapPhase = "init" \/ data' # data \/ selectedVehicle' # selectedVehicle
    /\ Len(ListAfter) > 0

\* The reported coordinates are each within 0.001 degree of the cached base.
WithinTolerance(cachedPos, v) ==
    /\ Abs(cachedPos.baseLat - v.lat) < CacheTolerance
    /\ Abs(cachedPos.baseLon - v.lon) < CacheTolerance

\* The cache as it is when entry n + 1 of the list is processed.
RECURSIVE CacheBefore(_, _, _, _)
CacheBefore(all, n, cache, sel) ==
    IF n = 0 THEN cache
    ELSE ProcessVehicle(all[n], n - 1, all, CacheBefore(all, n - 1, cache, sel), sel).cache

\* C1 as stated: in every run of the processing effect, a displayed vehicle
\* that is not selected, whose id had a cache entry before the run and whose
\* reported coordinates are within 0.001 of the base of that entry, is
\* displayed at exactly the position of that entry.
C1_DisplayedAtCachedPosition ==
    [][ProcessingRan =>
        \A k \in 1..Len(displayVehicles') :
            LET e == displayVehicles'[k]
                v == ListAfter[e.vehicleIndex + 1]
                id == VehicleIdOf(v, e.vehicleIndex)
            IN  (/\ ~IsSelected(selectedVehicle', id)
                 /\ id \in DOMAIN vehiclePositionCache
                 /\ WithinTolerance(vehiclePositionCache[id], v))
                => /\ e.currentLat = vehiclePositionCache[id].lat
                   /\ e.currentLon = vehiclePositionCache[id].lon]_vars

\* C1, amended: in every run of the processing effect, a displayed vehicle
\* that is not selected, whose id has a cache entry at the moment the vehicle
\* is processed (entries before it in the list may have written one) and whose
\* reported coordinates are within 0.001 of the base of that entry, is
\* displayed at exactly the position of that entry, whatever its index, and
\* processing it leaves the entry as it is.
C1_DisplayedAtCacheWhenProcessed ==
    [][ProcessingRan =>
        \A k \in 1..Len(displayVehicles') :
            LET e == displayVehicles'[k]
                v == ListAfter[e.vehicleIndex + 1]
                id == VehicleIdOf(v, e.vehicleIndex)
                before == CacheBefore(ListAfter, e.vehicleIndex, vehiclePositionCache,
                                      selectedVehicle')
                after == CacheBefore(ListAfter, e.vehicleIndex + 1, vehiclePositionCache,
                                     selectedVehicle')
            IN  (/\ ~IsSelected(selectedVehicle', id)
                 /\ id \in DOMAIN before
                 /\ WithinTolerance(before[id], v))
                => /\ e.currentLat = before[id].lat
                   /\ e.currentLon = before[id].lon
                   /\ after[id] = before[id]]_vars

\* C1, witness: after a poll refresh a vehicle that is not selected is shown at
\* its cached position, which is not the position a fresh computation at its
\* present index would give.
C1_CachedPositionReused ==
    /\ mapPhase = "mounted"
    /\ data.loaded
    /\ \E k \in 1..Len(displayVehicles) :
          LET e == displayVehicles[k]
              all == data.vehicleTracking
              v == all[e.vehicleIndex + 1]
              id == VehicleIdOf(v, e.vehicleIndex)
              p == FreshPosition(id, e.vehicleIndex, v.lat, v.lon,
                                 SpreadMultiplier(SameCoordCount(all, v.lat, v.lon)))
          IN  /\ e.vehicleIndex + 1 \in 1..Len(all)
              /\ ~IsSelected(selectedVehicle, id)
              /\ HasValidCoords(v)
              /\ id \in DOMAIN vehiclePositionCache
              /\ WithinTolerance(vehiclePositionCache[id], v)
              /\ e.currentLat = vehiclePositionCache[id].lat
              /\ e.currentLon = vehiclePositionCache[id].lon
              /\ <<e.currentLat, e.currentLon>> # <<p.lat, p.lon>>

\* C2: after the processing effect has run, no two entries of the processed list
\* it displays have the same (currentLat, currentLon).
C2_NoTwoEntriesAtOnePosition ==
    [][ProcessingRan =>
        \A i, j \in 1..Len(displayVehicles') :
            i # j => <<displayVehicles'[i].currentLat, displayVehicles'[i].currentLon>>
                     # <<displayVehicles'[j].currentLat, displayVehicles'[j].currentLon>>]_vars

\* C2, the failing case: two entries with one vehicle id are displayed at one
\* position.
C2_SameIdOverlaps ==
    /\ mapPhase = "mounted"
    /\ \E i, j \in 1..Len(displayVehicles) :
          /\ i < j
          /\ displayVehicles[i].vehicleId = displayVehicles[j].vehicleId
          /\ displayVehicles[i].currentLat = displayVehicles[j].currentLat
          /\ displayVehicles[i].currentLon = displayVehicles[j].currentLon

\* C3: a selectedVehiclePosition request is started only by the selection being
\* made (once, immediately) or by a tick of the 15-second timer.
C3_RequestsOnlyBySelectionOrTick ==
    reqCause \in {"none", "selection", "timer"}

\* C3, the failing case: a request is in flight that a re-run of the
\* selected-vehicle effect after a change of displayVehicles started.
C3_RequestStartedByRefresh ==
    /\ mapPhase = "mounted"
    /\ reqCause = "refresh"
    /\ TotalInflight(inflight) > 0

\* C7: the cache only changes in defined ways.  No step of the mounted component
\* removes an entry; a run of the processing effect changes an existing entry
\* only if the list holds a vehicle with that id that is not selected, has valid
\* coordinates and is reported 0.001 or more from the cached base, and it
\* touches no id that is not in the list; any other change of the cache writes
\* the entry of the selected vehicle id and nothing else.
C7_CacheChangesOnlyAsDefined ==
    [][mapPhase' = "mounted" =>
        /\ DOMAIN vehiclePositionCache \subseteq DOMAIN vehiclePositionCache'
        /\ ProcessingRan =>
              /\ \A id \in DOMAIN vehiclePositionCache' :
                    (id \notin DOMAIN vehiclePositionCache
                     \/ vehiclePositionCache'[id] # vehiclePositionCache[id])
                    => \E i \in 1..Len(ListAfter) : VehicleIdOf(ListAfter[i], i - 1) = id
              /\ \A id \in DOMAIN vehiclePositionCache :
                    vehiclePositionCache'[id] # vehiclePositionCache[id]
                    => \E i \in 1..Len(ListAfter) :
                          /\ VehicleIdOf(ListAfter[i], i - 1) = id
                          /\ ~IsSelected(selectedVehicle', id)
                          /\ HasValidCoords(ListAfter[i])
                          /\ ~WithinTolerance(vehiclePositionCache[id], ListAfter[i])
        /\ (~ProcessingRan /\ vehiclePositionCache' # vehiclePositionCache) =>
              /\ selectedVehicle.present
              /\ \A id \in DOMAIN vehiclePositionCache' :
                    (id \notin DOMAIN vehiclePositionCache
                     \/ vehiclePositionCache'[id] # vehiclePositionCache[id])
                    => id = selectedVehicle.vehicleId]_vars

\* C7, the failing case: the cache holds the position of a response for a
\* vehicle while no vehicle is selected.
C7_ResponseWrittenWithoutSelection ==
    /\ mapPhase = "mounted"
    /\ ~selectedVehicle.present
    /\ \E id \in DOMAIN vehiclePositionCache, pos \in ResponsePositions :
          vehiclePositionCache[id] = CacheEntry(pos.lat, pos.lon, pos.lat, pos.lon)

\* C9: whenever the selected vehicle has valid reported coordinates, it is
\* displayed at the coordinates reported for it in the vehicle list or at the
\* coordinates of the latest selectedVehiclePosition response.
C9_SelectedAtRealCoordinates ==
    (mapPhase = "mounted" /\ selectedVehicle.present) =>
        \A k \in 1..Len(displayVehicles) :
            LET e == displayVehicles[k]
                v == CurrentVehicles(data, initialVehicles)[e.vehicleIndex + 1]
            IN  (e.vehicleId = selectedVehicle.vehicleId /\ HasValidCoords(v))
                => \/ <<e.currentLat, e.currentLon>> = <<v.lat, v.lon>>
                   \/ /\ latestResponse.has
                      /\ <<e.currentLat, e.currentLon>> = <<latestResponse.lat, latestResponse.lon>>

\* C9, the failing case: the selected vehicle has valid coordinates and is
\* displayed at the jitter position computed for it while it was not selected.
C9_SelectedAtJitterPosition ==
    /\ mapPhase = "mounted"
    /\ selectedVehicle.present
    /\ ~latestResponse.has
    /\ \E k \in 1..Len(displayVehicles) :
          LET e == displayVehicles[k]
              v == CurrentVehicles(data, initialVehicles)[e.vehicleIndex + 1]
          IN  /\ e.vehicleIndex + 1 \in 1..Len(CurrentVehicles(data, initialVehicles))
              /\ e.vehicleId = selectedVehicle.vehicleId
              /\ HasValidCoords(v)
              /\ \E index \in 0..(MaxLen - 1) :
                    LET p == FreshPosition(e.vehicleId, index, v.lat, v.lon, 1)
                    IN  <<e.currentLat, e.currentLon>> = <<p.lat, p.lon>>

(***************************************************************************)
(* Properties of VehicleMapModal                                           *)
(***************************************************************************)
\* C4: the latest run of the position effect started an animation only if the
\* timeToStation of the update is strictly lower than that of the update
\* immediately before it.
C4_AnimatesOnlyWhenCloser ==
    (modalPhase = "mounted" /\ lastEffect.outcome = "animate")
        => vehicle.timeToStation < lastEffect.beforeTime

\* C4, the failing case: an animation was started by an update whose
\* timeToStation is higher than that of the update before it.
C4_AnimatesWhenFarther ==
    /\ modalPhase = "mounted"
    /\ lastEffect.outcome = "animate"
    /\ vehicle.timeToStation > lastEffect.beforeTime

\* The position an animation ends at: from + (to - from) * p.
AnimationEnd(k) ==
    animation.from[k]
    + TruncDiv((animation.to[k] - animation.from[k]) * Min(animation.timeDiff, animation.maxTime),
               animation.maxTime)

Between(x, a, b) == (a <= x /\ x <= b) \/ (b <= x /\ x <= a)

\* Elapsed times of frames, 400 ms apart, up to past the end of an animation.
SampleTimes == {400 * n : n \in 0..8}

\* C5: once a frame of an animation has run, the progress factor p lies in
\* (0, 1], the position lies between `from` and from + (to - from) * p in both
\* coordinates and on the line from `from` to the next stop (up to the rounding
\* of a coordinate), it is `from` at t = 0 and from + (to - from) * p from
\* t = 1 on; the eased fraction rises monotonically from 0 to 1 over 2000 ms.
C5_EasedStaysOnSegment ==
    /\ \A e1, e2 \in SampleTimes :
          e1 <= e2 => /\ 0 <= Eased(Progress(e1))
                      /\ Eased(Progress(e1)) <= Eased(Progress(e2))
                      /\ Eased(Progress(e2)) <= TrigScale
    /\ Eased(Progress(0)) = 0
    /\ \A e \in SampleTimes : e >= Duration => Eased(Progress(e)) = TrigScale
    /\ animation.elapsed >= 0 =>
          LET dLat == animation.to[1] - animation.from[1]
              dLon == animation.to[2] - animation.from[2]
              x == animatedPosition[1] - animation.from[1]
              y == animatedPosition[2] - animation.from[2]
          IN  /\ 0 < animation.timeDiff
              /\ Min(animation.timeDiff, animation.maxTime) <= animation.maxTime
              /\ \A k \in 1..2 :
                    /\ Between(AnimationEnd(k), animation.from[k], animation.to[k])
                    /\ Between(animatedPosition[k], animation.from[k], AnimationEnd(k))
                    /\ animation.elapsed = 0 => animatedPosition[k] = animation.from[k]
                    /\ animation.elapsed >= Duration => animatedPosition[k] = AnimationEnd(k)
              /\ Abs(x * dLon - y * dLat) <= Abs(dLat) + Abs(dLon)

\* C5, witness: an animation with p < 1 has ended past 2000 ms, away from where
\* it started and short of the next stop.
C5_AnimationEndedShortOfStop ==
    /\ modalPhase = "mounted"
    /\ ~animation.active
    /\ animation.elapsed > Duration
    /\ animation.timeDiff < animation.maxTime
    /\ animatedPosition # animation.from
    /\ animatedPosition # animation.to
    /\ animatedPosition = <<AnimationEnd(1), AnimationEnd(2)>>

\* C10: after every run of the position effect prevPosRef holds the lat, lon
\* and timeToStation of the update just processed.
C10_RefHoldsProcessedUpdate ==
    modalPhase = "mounted" => prevPosRef = RefOf(vehicle)

\* C10, the failing case: the effect started an animation and prevPosRef still
\* holds the timeToStation of an earlier update.
C10_RefStaleAfterAnimation ==
    /\ modalPhase = "mounted"
    /\ lastEffect.outcome = "animate"
    /\ prevPosRef.timeToStation # vehicle.timeToStation

(***************************************************************************)
(* Properties of LiveVehicles                                              *)
(***************************************************************************)
\* C6: while the component is mounted exactly one 10-second timer is active,
\* every fetch was started at mount or by a tick of the timer, and after unmount
\* no timer remains.
C6_OneTimerFetchAtMountOrTick ==
    /\ livePhase = "mounted" => Cardinality(liveTimers) = 1
    /\ liveHist \in {"none", "mount", "tick"}
    /\ livePhase = "unmounted" => liveTimers = {}

\* C6, the failing case: a fetch is in flight that neither the mount nor a tick
\* started, but the re-run of the effect after isInitialLoad became false.
C6_FetchStartedByEffectRerun ==
    /\ livePhase = "mounted"
    /\ liveHist = "rerun"
    /\ ~isInitialLoad
    /\ liveFetches[FALSE] > 0

(***************************************************************************)
(* Properties of Dashboard                                                 *)
(***************************************************************************)
\* C8: the 30-second timer exists exactly while the dashboard is mounted and
\* selectedTab is 'live': there is one timer then, calling the current refetch,
\* and none otherwise; never two.
C8_TimerExactlyWhileLive ==
    /\ (dashPhase = "mounted" /\ selectedTab = "live")
          => /\ Cardinality(dashTimers) = 1
             /\ \A t \in dashTimers : t.refetch = refetchIdentity
    /\ (dashPhase # "mounted" \/ selectedTab # "live") => dashTimers = {}

\* C8, witness: the timer of the live tab has ticked and the tab was left
\* afterwards: no timer is active.
C8_TimerClearedAfterLive ==
    /\ dashPhase = "mounted"
    /\ selectedTab = "tube"
    /\ refetchCalls > 0
    /\ dashTimers = {}


(***************************************************************************)
(* Properties of the processing effect as a function of its input          *)
(***************************************************************************)
\* The entry of the placed vehicle in run A and in run B.
PlacedA == placement.runA[placement.indexA + 1]
PlacedB == placement.runB[placement.indexB + 1]

\* lat and lon are both defined and non-null, and are not the point (0, 0).
DefinedAndNotOrigin(v) ==
    /\ v.lat # Missing
    /\ v.lon # Missing
    /\ ~(v.lat = 0 /\ v.lon = 0)

\* The largest offset of a jitter position from the reported coordinates
\* while no more than five vehicles share them: 0.005 + 0.003 degree.
MaxJitter == BaseRadius + 100 * HashRadiusStep

\* C11: a vehicle is treated as having valid coordinates exactly when lat and
\* lon are defined, non-null and not the point (0, 0): every such vehicle is
\* placed within the jitter radius of its reported coordinates, and only the
\* other vehicles are placed at the position generated around Central London.
C11_ValidExactlyWhenDefinedAndNotOrigin ==
    placement.done =>
        LET v == placement.vehicle
            e == PlacedA
            p == GeneratedPosition(v.vehicleId, placement.indexA)
        IN  /\ HasValidCoords(v) <=> DefinedAndNotOrigin(v)
            /\ DefinedAndNotOrigin(v) =>
                  /\ Abs(e.currentLat - v.lat) <= MaxJitter
                  /\ Abs(e.currentLon - v.lon) <= MaxJitter
            /\ <<e.currentLat, e.currentLon>> = <<p.lat, p.lon>> => ~DefinedAndNotOrigin(v)

\* C11, the failing case: a vehicle reported at latitude 51.5074 and
\* longitude -0.05 is placed at the position generated around Central London.
C11_RealCoordinatesReplaced ==
    /\ placement.done
    /\ placement.vehicle.lat = CentralLat
    /\ placement.vehicle.lon = 0 - 50000
    /\ LET p == GeneratedPosition(placement.vehicle.vehicleId, placement.indexA)
       IN  <<PlacedA.currentLat, PlacedA.currentLon>> = <<p.lat, p.lon>>

FetchCompleted ==
    /\ livePhase = "mounted"
    /\ \E captured \in BOOLEAN : liveFetches'[captured] < liveFetches[captured]

\* The screen the component renders.
Screen == LiveScreen(isInitialLoad, error, vehicles)

\* C13: LiveVehicles leaves the initial loading state only after a first
\* successful fetch: whenever isInitialLoad is false, a fetch has succeeded.
C13_LoadedOnlyAfterSuccess ==
    ~isInitialLoad => liveLast.succeeded

\* C13, the failing case: the first fetch failed and the component has left
\* the loading state and shows the error screen.
C13_LoadedAfterFailedFirstFetch ==
    /\ livePhase = "mounted"
    /\ ~isInitialLoad
    /\ ~liveLast.succeeded
    /\ liveLast.outcome = "failure"
    /\ Screen = "error"

\* C14: a refresh that fails leaves vehicles and selectedVehicle unchanged and
\* records the error message; a refresh that succeeds replaces vehicles with
\* the response and clears the error; the error screen is shown only while
\* vehicles is empty.
C14_RefreshOutcome ==
    /\ [][FetchCompleted =>
            \/ /\ liveLast'.outcome = "failure"
               /\ vehicles' = vehicles
               /\ liveSelected' = liveSelected
               /\ error' = "message"
            \/ /\ liveLast'.outcome = "success"
               /\ vehicles' = liveLast'.response
               /\ error' = "null"]_vars
    /\ [](Screen = "error" => Len(vehicles) = 0 /\ error # "null")
    /\ [](~isInitialLoad /\ Len(vehicles) > 0 => Screen = "cards")

\* C14, the case: a refresh failed after vehicles were loaded and one was
\* selected; the list is still shown, with the error recorded.
C14_FailedRefreshKeepsList ==
    /\ livePhase = "mounted"
    /\ liveLast.outcome = "failure"
    /\ error = "message"
    /\ Len(vehicles) > 0
    /\ liveSelected # NoVehicle
    /\ Screen = "cards"

\* C15: a successful refresh never opens, closes or retargets the map modal:
\* a null selectedVehicle stays null; otherwise it becomes the response's entry
\* with the same vehicleId when there is one and stays the previous object
\* when there is none; a failed refresh leaves it as it is.
C15_RefreshKeepsSelectedId ==
    [][FetchCompleted =>
        /\ (liveSelected = NoVehicle) = (liveSelected' = NoVehicle)
        /\ liveSelected'.vehicleId = liveSelected.vehicleId
        /\ liveSelected # NoVehicle /\ liveLast'.outcome = "success" =>
              IF \E i \in 1..Len(vehicles') : vehicles'[i].vehicleId = liveSelected.vehicleId
              THEN \E i \in 1..Len(vehicles') :
                      /\ vehicles'[i].vehicleId = liveSelected.vehicleId
                      /\ liveSelected' = vehicles'[i]
              ELSE liveSelected' = liveSelected]_vars

\* C15, the case: the latest successful response has no entry for the selected
\* vehicle, and the modal still shows the previous object.
C15_SelectedMissingFromResponse ==
    /\ livePhase = "mounted"
    /\ liveLast.outcome = "success"
    /\ liveSelected # NoVehicle
    /\ vehicles = liveLast.response
    /\ \A i \in 1..Len(vehicles) : vehicles[i].vehicleId # liveSelected.vehicleId

(***************************************************************************)
(* AnimatedVehicleMap: the loading panel and the displayed list            *)
(***************************************************************************)
\* C16: the loading panel is shown only on initial load: isInitialLoad is
\* true until data.vehicleTracking is present and false from then on, it never
\* becomes true again in a mounted component, and the panel is rendered only
\* while it is true.
C16_LoadingPanelOnlyOnInitialLoad ==
    /\ [](mapPhase = "mounted" => (mapIsInitialLoad <=> ~data.loaded))
    /\ [](LoadingPanel(loading, mapIsInitialLoad) => mapIsInitialLoad /\ ~data.loaded)
    /\ [][mapPhase = "mounted" /\ mapPhase' = "mounted" /\ ~mapIsInitialLoad
            => ~mapIsInitialLoad']_vars

\* C16, the case: a refetch is in flight after the first loaded result and
\* the loading panel is not rendered.
C16_RefetchWithoutPanel ==
    /\ mapPhase = "mounted"
    /\ data.loaded
    /\ loading
    /\ ~mapIsInitialLoad
    /\ ~LoadingPanel(loading, mapIsInitialLoad)

\* The indexes of the entries of `list` with the vehicleId `id`.
IndexesOf(list, id) == {j \in 1..Len(list) : list[j].vehicleId = id}

\* C17: after the processing effect ran on a non-empty list, displayVehicles
\* holds, with showOnlySelected and a selection, exactly the processed entries
\* with the selected vehicleId, and otherwise one processed entry per input
\* vehicle; in both cases in input order.
C17_DisplayedEntries ==
    [][ProcessingRan =>
        LET list == ListAfter
            shown == displayVehicles'
            processed == ProcessVehicles(list, vehiclePositionCache, selectedVehicle').processed
        IN  /\ \A i \in 1..Len(shown) :
                  /\ shown[i].vehicleIndex + 1 \in 1..Len(list)
                  /\ shown[i] = processed[shown[i].vehicleIndex + 1]
                  /\ shown[i].vehicleId = list[shown[i].vehicleIndex + 1].vehicleId
            /\ \A i, j \in 1..Len(shown) :
                  i < j => shown[i].vehicleIndex < shown[j].vehicleIndex
            /\ IF showOnlySelected' /\ selectedVehicle'.present
               THEN /\ \A i \in 1..Len(shown) :
                         shown[i].vehicleId = selectedVehicle'.vehicleId
                    /\ Len(shown) = Cardinality(IndexesOf(list, selectedVehicle'.vehicleId))
               ELSE Len(shown) = Len(list)]_vars

\* C17, the case: with showOnlySelected and a selection, a list of two
\* vehicles is displayed as the one entry of the selected vehicle.
C17_OnlySelectedDisplayed ==
    /\ mapPhase = "mounted"
    /\ showOnlySelected
    /\ selectedVehicle.present
    /\ Len(CurrentVehicles(data, initialVehicles)) = 2
    /\ Len(displayVehicles) = 1
    /\ displayVehicles[1].vehicleId = selectedVehicle.vehicleId
    /\ displayVehicles[1].vehicleIndex = 1

====
